---------------------------- MODULE Spec2Model ----------------------------
(***************************************************************************)
(* A model of main.py, the "Little Prince's planet" OpenGL diorama: the    *)
(* camera state (eye, theta, phi), the rotation clock zrot and the GLUT    *)
(* callbacks display, resize_scene, keyboard and special_pressed.          *)
(*                                                                         *)
(* Numbers.  The program is Python 2 (range(180 / faces, ...) and the      *)
(* comparison of key with 'w' only work there), so "/" between integers    *)
(* is floor division.  Floats are modelled in fixed point:                 *)
(*   - lengths (eye, new_position) in 1/Scale units;                       *)
(*   - theta and phi in whole degrees (they only take multiples of         *)
(*     eye_rotation_delta);                                                *)
(*   - zrot and the angles derived from it in 1/Scale degrees.            *)
(* math.sin / math.cos are a table rounded to 1/Scale.                     *)
(***************************************************************************)
EXTENDS Integers, Sequences, FiniteSets, TLC

VARIABLES
    eye,          \* main.py:41   camera position, <<x, y, z>>
    theta,        \* main.py:40   yaw, degrees
    phi,          \* main.py:39   pitch, degrees
    zrot,         \* main.py:12   rotation clock
    redisplay,    \* GLUT's "window needs redisplay" mark set by glutPostRedisplay()
    viewport,     \* <<width, height>> last given to glViewport
    aspect,       \* <<numerator, denominator>> last given to gluPerspective
    drawn,        \* the angles the bodies of the last frame were drawn with
    frames,       \* number of display() calls so far
    last,         \* the last callback the event loop delivered, with its locals
    session,      \* what the user does in this run (bounds the exploration)
    keys,         \* arrow / move keys pressed so far in a "mixed" session
    gl            \* the modelview matrix stack and the position inside a frame
                  \* that is followed one OpenGL call at a time (SpecGL)

vars == <<eye, theta, phi, zrot, redisplay, viewport, aspect, drawn, frames,
          last, session, keys, gl>>

---------------------------------------------------------------------------
(* Bounds of the exploration *)

\* display() ticks explored
MaxFrames == 2
\* key presses explored in a session that mixes move and arrow keys
MaxKeys == 3

\* fixed-point resolution: 1 length unit = Scale model units
Scale == 10 * 10 * 10

\* The user either only walks (w/a/s/d, never turning: every position of the
\* unit lattice inside the safety sphere is reached), only looks around
\* (arrow keys: every theta and phi is reached), or mixes both for MaxKeys keys.
Sessions == {"walk", "look", "mixed"}

---------------------------------------------------------------------------
(* Global constants, main.py:11-48 *)

delta_rot == 50                                   \* 0.05 degrees
distance_limit == 100
sky_radius == distance_limit \div 3            \* Python 2: int / int
sky_center == <<0, 0, 0>>
sky_rotation_factor_den == 10                     \* sky_rotation_factor = 1/10
star_distance == 700                              \* 0.7, in 1/Scale
safety_radius == (sky_radius * 2) \div 3      \* Python 2: int / int
planet_radius == 1300                             \* 1.3, in 1/Scale
planet_tilt == 25
satellite_angle_of_orbit == 25
satellite_distance_from_planet_center == 4
satellite_angular_speed_modifier == -3
eye_rotation_delta == 5
width == 800
height == 600

---------------------------------------------------------------------------
(* math.sin and math.cos of an angle in degrees (the code converts with      *)
(* theta * 2 * math.pi / 360.0), rounded to 1/Scale.                         *)

SinTable == <<0, 87, 174, 259, 342, 423, 500, 574, 643, 707,
              766, 819, 866, 906, 940, 966, 985, 996, 1000>>

sin_deg(d) ==
    LET m == d % 360
        T(a) == SinTable[(a \div 5) + 1]
    IN  IF m <= 90 THEN T(m)
        ELSE IF m <= 180 THEN T(180 - m)
        ELSE IF m <= 270 THEN -T(m - 180)
        ELSE -T(360 - m)

cos_deg(d) == sin_deg(d + 90)

---------------------------------------------------------------------------
(* Python arithmetic *)

\* the remainder of C and Java, which has the sign of the dividend
CMod(a, b) == IF a >= 0 THEN a % b ELSE -((-a) % b)

\* a % b for b > 0: the result has the sign of the divisor
PyMod(a, b) == a % b

\* math.sqrt(dx ** 2 + dy ** 2 + dz ** 2), kept squared (model units squared)
distance2(p, q) ==
    (p[1] - q[1]) * (p[1] - q[1])
  + (p[2] - q[2]) * (p[2] - q[2])
  + (p[3] - q[3]) * (p[3] - q[3])

\* the test against the sky dome's radius instead of the safety radius
within_sky_radius(p) ==
    distance2(p, sky_center) <= (sky_radius * Scale) * (sky_radius * Scale)

\* the test with "<" for "<="
strictly_within_safety_radius(p) ==
    distance2(p, sky_center) < (safety_radius * Scale) * (safety_radius * Scale)

\* sqrt(d2) / Scale <= safety_radius, for the non-negative safety_radius
within_safety_radius(p) ==
    distance2(p, sky_center) <= (safety_radius * Scale) * (safety_radius * Scale)

---------------------------------------------------------------------------
(* The events the GLUT main loop delivers *)

MoveKeys    == {"w", "a", "s", "d"}
NormalKeys  == MoveKeys \cup {"x", "ESC"}          \* "x": any other key
ArrowKeys   == {"LEFT", "RIGHT", "UP", "DOWN"}
SpecialKeys == ArrowKeys \cup {"F1"}               \* "F1": any other special key
Widths      == {width}
Heights     == {0, 1, height}

\* sys.exit() in keyboard() ends the process: nothing is delivered afterwards
Running == last.key # "ESC"

CanMove == Running /\ (session = "walk" \/ (session = "mixed" /\ keys < MaxKeys))
CanLook == Running /\ (session = "look" \/ (session = "mixed" /\ keys < MaxKeys))
CountKey == keys' = IF session = "mixed" THEN keys + 1 ELSE keys

\* the record of a delivered callback: its name, its key, the arrow key of the
\* callback before it (if it was one), the yaw and pitch it found, the position
\* it proposed and what set_safe_eye_position returned
Event(ev, key, new_position, ret, size) ==
    [ev |-> ev, key |-> key,
     key0 |-> IF last.key \in ArrowKeys THEN last.key ELSE "-", theta0 |-> theta, phi0 |-> phi,
     new_position |-> new_position, ret |-> ret, size |-> size]

---------------------------------------------------------------------------
(* set_safe_eye_position, main.py:56-74: the values of eye, of the redisplay *)
(* mark and of the return value after the call                               *)

\* eye assigned before the test, so a rejected position is kept
set_safe_eye_position_assign_first(new_position) ==
    IF within_safety_radius(new_position)
    THEN [eye |-> new_position, redisplay |-> TRUE, ret |-> "True"]
    ELSE [eye |-> new_position, redisplay |-> redisplay, ret |-> "False"]

\* a rejected move sends the camera back to the sky center
set_safe_eye_position_recenter(new_position) ==
    IF within_safety_radius(new_position)
    THEN [eye |-> new_position, redisplay |-> TRUE, ret |-> "True"]
    ELSE [eye |-> sky_center, redisplay |-> redisplay, ret |-> "False"]

set_safe_eye_position(new_position) ==
    IF within_safety_radius(new_position)
    THEN [eye |-> new_position, redisplay |-> TRUE, ret |-> "True"]
    ELSE [eye |-> eye, redisplay |-> redisplay, ret |-> "False"]

(* keyboard, main.py:281-314 *)

\* eye_new after the four "if key == ..." statements
eye_new(key) ==
    IF key = "w" THEN <<eye[1] - sin_deg(theta), eye[2], eye[3] - cos_deg(theta)>>
    ELSE IF key = "s" THEN <<eye[1] + sin_deg(theta), eye[2], eye[3] + cos_deg(theta)>>
    ELSE IF key = "a" THEN <<eye[1] - cos_deg(theta), eye[2], eye[3] + sin_deg(theta)>>
    ELSE IF key = "d" THEN <<eye[1] + cos_deg(theta), eye[2], eye[3] - sin_deg(theta)>>
    ELSE eye

keyboard(key) ==
    /\ CanMove
    /\ IF key = "ESC"
       THEN /\ last' = Event("keyboard", key, <<>>, "None", <<>>)
            /\ UNCHANGED <<eye, redisplay>>
       ELSE LET r == set_safe_eye_position(eye_new(key))
            IN  /\ eye' = r.eye
                /\ redisplay' = r.redisplay
                /\ last' = Event("keyboard", key, eye_new(key), r.ret, <<>>)
    /\ CountKey
    /\ UNCHANGED <<theta, phi, zrot, viewport, aspect, drawn, frames, session, gl>>

---------------------------------------------------------------------------
(* special_pressed, main.py:317-347 *)

\* yaw clamped at 0 instead of wrapped
look_right_clamped(t) ==
    IF t - eye_rotation_delta < 0 THEN 0 ELSE t - eye_rotation_delta

look_right(t) == PyMod(t - eye_rotation_delta, 360)

look_left(t) == PyMod(t + eye_rotation_delta, 360)

\* the clamp tested with "<=" for "<"
look_up_off_by_one(p) == IF p <= 90 THEN p + eye_rotation_delta ELSE p

look_up(p) == IF p < 90 THEN p + eye_rotation_delta ELSE p

\* the guard of "look up" copied into "look down"
look_down_guard_copied(p) == IF p < 90 THEN p - eye_rotation_delta ELSE p

look_down(p) == IF p > -90 THEN p - eye_rotation_delta ELSE p

\* glutPostRedisplay() moved inside the "if phi < 90" / "if phi > -90" blocks
special_posts_redisplay_if_changed(key) ==
    \/ key \in {"LEFT", "RIGHT"}
    \/ key = "UP" /\ phi < 90
    \/ key = "DOWN" /\ phi > -90

\* whether special_pressed(key) reaches a glutPostRedisplay() call
special_posts_redisplay(key) == key \in ArrowKeys

special_pressed(key) ==
    /\ CanLook
    /\ theta' = IF key = "RIGHT" THEN look_right(theta)
                ELSE IF key = "LEFT" THEN look_left(theta)
                ELSE theta
    /\ phi' = IF key = "UP" THEN look_up(phi)
              ELSE IF key = "DOWN" THEN look_down(phi)
              ELSE phi
    /\ redisplay' = IF special_posts_redisplay(key) THEN TRUE ELSE redisplay
    /\ last' = Event("special", key, <<>>, "None", <<>>)
    /\ CountKey
    /\ UNCHANGED <<eye, zrot, viewport, aspect, drawn, frames, session, gl>>

---------------------------------------------------------------------------
(* display, main.py:214-261.  The camera is read, the three bodies are      *)
(* drawn with the current zrot, and only then is zrot increased.             *)

\* glRotatef(sky_rotation_factor * zrot, ...), main.py:504
draw_sky(z) == [sky |-> z \div sky_rotation_factor_den]

\* position_on_sphere(sky_center, -sky_rotation_factor * zrot, ...) and
\* glRotatef(2 * zrot, ...), main.py:545-561
draw_starlight(z) ==
    [star_longitude |-> -(z \div sky_rotation_factor_den), star_spin |-> 2 * z]

\* draw_satellite(0, satellite_angular_speed_modifier * zrot, ...) and
\* glRotatef(zrot, ...), main.py:591-598 and 647
draw_planet(z) ==
    [satellite_latitude |-> satellite_angular_speed_modifier * z,
     satellite_spin |-> z, planet_spin |-> z]

\* "zrot += delta_rot" moved above the draw calls
display_steps_increment_first(z) ==
    [sky |-> draw_sky(z + delta_rot), star |-> draw_starlight(z + delta_rot),
     planet |-> draw_planet(z + delta_rot), zrot |-> z + delta_rot]

\* the value of zrot each draw call of display() reads, and zrot afterwards
display_steps(z) ==
    [sky |-> draw_sky(z), star |-> draw_starlight(z), planet |-> draw_planet(z),
     zrot |-> z + delta_rot]

display ==
    /\ Running
    /\ frames < MaxFrames
    /\ LET f == display_steps(zrot)
       IN  /\ drawn' = <<f.sky, f.star, f.planet>>
           /\ zrot' = f.zrot
    /\ frames' = frames + 1
    /\ redisplay' = FALSE
    /\ last' = Event("display", "-", <<>>, "None", <<>>)
    /\ UNCHANGED <<eye, theta, phi, viewport, aspect, session, keys, gl>>

---------------------------------------------------------------------------
(* resize_scene, main.py:264-278 *)

\* the "if height == 0" test left out
resize_height_unchecked(h) == h

resize_height(h) == IF h = 0 THEN 1 ELSE h

resize_scene(w, h) ==
    /\ Running
    /\ viewport' = <<w, resize_height(h)>>
    /\ aspect' = <<w, resize_height(h)>>
    /\ last' = Event("resize", "-", <<>>, "None", <<w, h>>)
    /\ UNCHANGED <<eye, theta, phi, zrot, redisplay, drawn, frames, session, keys, gl>>

---------------------------------------------------------------------------
(* The OpenGL calls of a frame that touch the modelview matrix, in source    *)
(* order.  Angles are in 1/Scale degrees, lengths in 1/Scale units.          *)

Deg(d) == d * Scale

AxisX == <<Scale, 0, 0>>
AxisY == <<0, Scale, 0>>
AxisZ == <<0, 0, Scale>>
Origin == <<0, 0, 0>>

\* one call: its name, its angle, its vector (axis or offset), what it draws
\* or which function it enters or leaves, and that function's arguments
Op(op, a, v, f, args) == [op |-> op, a |-> a, v |-> v, f |-> f, args |-> args]

glPushMatrix == Op("glPushMatrix", 0, Origin, "-", <<>>)
glPopMatrix == Op("glPopMatrix", 0, Origin, "-", <<>>)
glLoadIdentity == Op("glLoadIdentity", 0, Origin, "-", <<>>)
gluLookAt == Op("gluLookAt", 0, Origin, "-", <<>>)
glTranslatef(v) == Op("glTranslatef", 0, v, "-", <<>>)
glRotatef(a, axis) == Op("glRotatef", a, axis, "-", <<>>)
\* glBegin(GL_QUADS) ... glEnd(), gluSphere, gluCylinder, glLightfv(GL_POSITION)
Draw(shape) == Op("draw", 0, Origin, shape, <<>>)

\* the calls of function f(args), between the marks of its entry and return
Call(f, args, body) ==
    <<Op("call", 0, Origin, f, args)>> \o body \o <<Op("return", 0, Origin, f, args)>>

RECURSIVE PyRange(_, _, _)
\* range(start, stop, step) for step > 0
PyRange(start, stop, step) ==
    IF start >= stop THEN <<>>
    ELSE <<start>> \o PyRange(start + step, stop, step)

\* position_on_sphere, main.py:115-159, with rotations 2 and 3 exchanged
position_on_sphere_z_first(sphere_center, dest_longitude, dest_latitude, dest_height, dest_orientation) ==
    Call("position_on_sphere",
         <<sphere_center, dest_longitude, dest_latitude, dest_height, dest_orientation>>,
         << glTranslatef(sphere_center),
            glRotatef(dest_latitude - Deg(90), AxisZ),
            glRotatef(dest_longitude - Deg(90), AxisY),
            glTranslatef(<<0, dest_height, 0>>),
            glRotatef(dest_orientation, AxisY) >>)

\* position_on_sphere, main.py:115-159
position_on_sphere(sphere_center, dest_longitude, dest_latitude, dest_height, dest_orientation) ==
    Call("position_on_sphere",
         <<sphere_center, dest_longitude, dest_latitude, dest_height, dest_orientation>>,
         << glTranslatef(sphere_center),
            glRotatef(dest_longitude - Deg(90), AxisY),
            glRotatef(dest_latitude - Deg(90), AxisZ),
            glTranslatef(<<0, dest_height, 0>>),
            glRotatef(dest_orientation, AxisY) >>)

RECURSIVE crossed_faces(_)
\* the body of "for i in range(turn, 181, turn)", main.py:451-475, once per i
crossed_faces(is) ==
    IF is = <<>> THEN <<>>
    ELSE <<glPushMatrix, Draw("quad"), glPopMatrix, glRotatef(Deg(Head(is)), AxisY)>>
         \o crossed_faces(Tail(is))

\* draw_crossed_textures without its last glPopMatrix()
draw_crossed_textures_no_pop(longitude, latitude, h, faces) ==
    LET turn == 180 \div faces
    IN  Call("draw_crossed_textures", <<longitude, latitude, h, faces>>,
             <<glPushMatrix>>
             \o position_on_sphere(sky_center, longitude, latitude, h, 0)
             \o crossed_faces(PyRange(turn, 181, turn)))

\* draw_crossed_textures, main.py:413-482 (w and h of the quads left out)
draw_crossed_textures(longitude, latitude, h, faces) ==
    LET turn == 180 \div faces                       \* Python 2: int / int
    IN  Call("draw_crossed_textures", <<longitude, latitude, h, faces>>,
             <<glPushMatrix>>
             \o position_on_sphere(sky_center, longitude, latitude, h, 0)
             \o crossed_faces(PyRange(turn, 181, turn))
             \o <<glPopMatrix>>)

\* draw_sky, main.py:485-517
draw_sky_gl(z) ==
    Call("draw_sky", <<>>,
         << glPushMatrix,
            glTranslatef(Origin),
            glRotatef(Deg(90), AxisX),
            glRotatef(draw_sky(z).sky, <<0, Scale \div 10, Scale>>),
            Draw("sphere"),
            glPopMatrix >>)

\* draw_starlight, main.py:520-573
draw_starlight_gl(z) ==
    Call("draw_starlight", <<>>,
         <<glPushMatrix>>
         \o position_on_sphere(sky_center, draw_starlight(z).star_longitude, 0,
                               sky_radius * star_distance, 0)
         \o << Draw("light"),
               glPushMatrix,
               glTranslatef(Origin),
               glRotatef(draw_starlight(z).star_spin, AxisZ),
               Draw("sphere"),
               glPopMatrix,
               glPopMatrix >>)

\* draw_satellite, main.py:625-660
draw_satellite(longitude, latitude, h, z) ==
    Call("draw_satellite", <<longitude, latitude, h>>,
         <<glPushMatrix>>
         \o position_on_sphere(sky_center, longitude, latitude, h, 0)
         \o << glRotatef(z, AxisZ), Draw("sphere"), glPopMatrix >>)

\* draw_little_prince, main.py:663-677
draw_little_prince(longitude, latitude, h) ==
    draw_crossed_textures(longitude, latitude, h, 1)

\* draw_rose, main.py:680-731; rose_h is the parameter h, the size of the rose
draw_rose(longitude, latitude, h, rose_h) ==
    Call("draw_rose", <<longitude, latitude, h>>,
         draw_crossed_textures(longitude, latitude, h, 10)
         \o <<glPushMatrix>>
         \o position_on_sphere(sky_center, longitude, latitude, h, 0)
         \o << glRotatef(Deg(-90), AxisX),
               Draw("cylinder"),
               glTranslatef(<<0, 0, (3 * rose_h) \div 4>>),
               Draw("cylinder"),
               glPopMatrix >>)

\* draw_baobab, main.py:734-749
draw_baobab(longitude, latitude, h) ==
    draw_crossed_textures(longitude, latitude, h, 4)

\* draw_planet, main.py:576-622
draw_planet_gl(z) ==
    Call("draw_planet", <<>>,
         << glPushMatrix,
            glRotatef(Deg(planet_tilt), AxisZ),
            glPushMatrix,
            glRotatef(Deg(satellite_angle_of_orbit), AxisZ) >>
         \o draw_satellite(0, draw_planet(z).satellite_latitude,
                           satellite_distance_from_planet_center * Scale,
                           draw_planet(z).satellite_spin)
         \o << glPopMatrix,
               glRotatef(Deg(90), AxisX),
               glRotatef(draw_planet(z).planet_spin, AxisZ),
               Draw("sphere") >>
         \o draw_little_prince(Deg(180), 0, planet_radius - Scale \div 10)
         \o draw_rose(Deg(60), Deg(30), planet_radius - Scale \div 10, (8 * Scale) \div 10)
         \o draw_baobab(Deg(-60), Deg(-30), planet_radius - Scale \div 10)
         \o <<glPopMatrix>>)

\* the matrix calls of display(), main.py:228-255
display_gl(z) ==
    <<glLoadIdentity, gluLookAt>>
    \o draw_sky_gl(z) \o draw_starlight_gl(z) \o draw_planet_gl(z)

---------------------------------------------------------------------------
(* The modelview matrix stack, followed one call at a time.  A matrix is     *)
(* kept as the sequence of transforms multiplied into it since the last      *)
(* glLoadIdentity(); gl.cur is the current matrix (the top of the stack),    *)
(* gl.stack the matrices saved below it by glPushMatrix().                   *)

\* what is followed: a frame of display(), or one call of position_on_sphere
Job(kind, args) == [kind |-> kind, args |-> args]

SphereCenters == {sky_center, <<Scale, 0, 0>>}
SphereLongitudes == {Deg(-60), 0, Deg(90), Deg(180)}
SphereLatitudes == {Deg(-30), 0, Deg(90)}
SphereHeights == {0, planet_radius - Scale \div 10, satellite_distance_from_planet_center * Scale}
SphereOrientations == {0, Deg(90)}

Jobs ==
    {Job("display", <<>>)}
    \cup {Job("position_on_sphere", <<c, lo, la, h, o>>) :
            c \in SphereCenters, lo \in SphereLongitudes, la \in SphereLatitudes,
            h \in SphereHeights, o \in SphereOrientations}

NoReturn ==
    [f |-> "-", args |-> <<>>, depth0 |-> 0, depth1 |-> 0,
     cur0 |-> <<>>, cur1 |-> <<>>, quads |-> <<>>]

GLStart(job) ==
    [job |-> job, pc |-> 1, cur |-> <<>>, stack |-> <<>>, calls |-> <<>>,
     quads |-> <<>>, returned |-> NoReturn, underflow |-> FALSE, stolen |-> FALSE]

\* the calls of the job, in order
Program ==
    IF gl.job.kind = "display" THEN display_gl(zrot)
    ELSE IF gl.job.kind = "position_on_sphere"
    THEN position_on_sphere(gl.job.args[1], gl.job.args[2], gl.job.args[3],
                            gl.job.args[4], gl.job.args[5])
    ELSE <<>>

\* the next call is `op`; a frame is only started while frames < MaxFrames
At(op) ==
    /\ Running
    /\ gl.job.kind = "display" => frames < MaxFrames
    /\ gl.pc <= Len(Program)
    /\ Program[gl.pc].op = op

NextOp == Program[gl.pc]

camera == <<eye, theta, phi, zrot, redisplay, viewport, aspect, drawn, frames,
            last, session, keys>>

step_glLoadIdentity ==
    /\ At("glLoadIdentity")
    /\ gl' = [gl EXCEPT !.pc = @ + 1, !.cur = <<>>]
    /\ UNCHANGED camera

\* gluLookAt, glTranslatef and glRotatef multiply the current matrix
step_transform ==
    /\ At("gluLookAt") \/ At("glTranslatef") \/ At("glRotatef")
    /\ gl' = [gl EXCEPT !.pc = @ + 1, !.cur = Append(@, NextOp)]
    /\ UNCHANGED camera

step_glPushMatrix ==
    /\ At("glPushMatrix")
    /\ gl' = [gl EXCEPT !.pc = @ + 1, !.stack = Append(@, gl.cur)]
    /\ UNCHANGED camera

\* glPopMatrix() on a stack holding only the current matrix is
\* GL_STACK_UNDERFLOW and changes nothing; gl.stolen records a pop of a matrix
\* that the function being executed did not push
step_glPopMatrix ==
    /\ At("glPopMatrix")
    /\ IF gl.stack = <<>>
       THEN gl' = [gl EXCEPT !.pc = @ + 1, !.underflow = TRUE]
       ELSE gl' = [gl EXCEPT !.pc = @ + 1,
                             !.cur = gl.stack[Len(gl.stack)],
                             !.stack = SubSeq(@, 1, Len(@) - 1),
                             !.stolen = @ \/ (gl.calls # <<>> /\
                                 Len(gl.stack) <= gl.calls[Len(gl.calls)].depth)]
    /\ UNCHANGED camera

\* a quad is drawn with the current matrix
step_draw ==
    /\ At("draw")
    /\ gl' = [gl EXCEPT !.pc = @ + 1,
                        !.quads = IF NextOp.f = "quad" THEN Append(@, gl.cur) ELSE @]
    /\ UNCHANGED camera

step_call ==
    /\ At("call")
    /\ gl' = [gl EXCEPT !.pc = @ + 1,
                        !.calls = Append(@, [f |-> NextOp.f, args |-> NextOp.args,
                                             depth |-> Len(gl.stack), cur |-> gl.cur,
                                             quads |-> Len(gl.quads)])]
    /\ UNCHANGED camera

step_return ==
    /\ At("return")
    /\ LET c == gl.calls[Len(gl.calls)]
       IN  gl' = [gl EXCEPT !.pc = @ + 1,
                            !.calls = SubSeq(@, 1, Len(@) - 1),
                            !.returned = [f |-> c.f, args |-> c.args,
                                          depth0 |-> c.depth, depth1 |-> Len(gl.stack),
                                          cur0 |-> c.cur, cur1 |-> gl.cur,
                                          quads |-> SubSeq(gl.quads, c.quads + 1,
                                                           Len(gl.quads))]]
    /\ UNCHANGED camera

\* the end of display(), main.py:257-261: zrot += delta_rot, glutSwapBuffers()
step_end_of_display ==
    /\ Running
    /\ gl.job.kind = "display"
    /\ frames < MaxFrames
    /\ gl.pc > Len(Program)
    /\ LET f == display_steps(zrot)
       IN  /\ drawn' = <<f.sky, f.star, f.planet>>
           /\ zrot' = f.zrot
    /\ frames' = frames + 1
    /\ redisplay' = FALSE
    /\ last' = Event("display", "-", <<>>, "None", <<>>)
    /\ gl' = [gl EXCEPT !.pc = 1, !.quads = <<>>]
    /\ UNCHANGED <<eye, theta, phi, viewport, aspect, session, keys>>

---------------------------------------------------------------------------
(* The program: the globals of main.py:11-48 after main() has created the    *)
(* window and init(width, height) has set the projection.                    *)

Init ==
    /\ eye = <<0, 0, 8 * Scale>>
    /\ theta = 0
    /\ phi = 0
    /\ zrot = 0
    /\ redisplay = TRUE
    /\ viewport = <<width, height>>
    /\ aspect = <<width, height>>
    /\ drawn = <<>>
    /\ frames = 0
    /\ last = [ev |-> "init", key |-> "-", key0 |-> "-", theta0 |-> 0, phi0 |-> 0,
               new_position |-> <<>>, ret |-> "None", size |-> <<>>]
    /\ session \in Sessions
    /\ keys = 0
    /\ gl = GLStart(Job("idle", <<>>))

Next ==
    \/ display
    \/ \E w \in Widths, h \in Heights : resize_scene(w, h)
    \/ \E key \in NormalKeys : keyboard(key)
    \/ \E key \in SpecialKeys : special_pressed(key)

Spec == Init /\ [][Next]_vars

\* The same program, with the matrix calls of display() followed one by one
\* (callbacks do not interleave: GLUT runs them on one thread), or with one
\* call of position_on_sphere on arguments drawn from small sets.
InitGL ==
    /\ eye = <<0, 0, 8 * Scale>>
    /\ theta = 0
    /\ phi = 0
    /\ zrot = 0
    /\ redisplay = TRUE
    /\ viewport = <<width, height>>
    /\ aspect = <<width, height>>
    /\ drawn = <<>>
    /\ frames = 0
    /\ last = [ev |-> "init", key |-> "-", key0 |-> "-", theta0 |-> 0, phi0 |-> 0,
               new_position |-> <<>>, ret |-> "None", size |-> <<>>]
    /\ session = "look"
    /\ keys = 0
    /\ gl \in {GLStart(j) : j \in Jobs}

NextGL ==
    \/ step_glLoadIdentity
    \/ step_transform
    \/ step_glPushMatrix
    \/ step_glPopMatrix
    \/ step_draw
    \/ step_call
    \/ step_return
    \/ step_end_of_display

SpecGL == InitGL /\ [][NextGL]_vars

---------------------------------------------------------------------------
(* Properties of the camera and of the rotation clock *)

\* safety_radius squared, in model units
SafetyRadius2 == (safety_radius * Scale) * (safety_radius * Scale)

\* the last callback was keyboard() and it reached set_safe_eye_position
MoveTried(e) == e.ev = "keyboard" /\ e.key # "ESC"

\* C1: in every reachable state the distance from eye to sky_center is at
\* most safety_radius.
C1_CameraContainment == distance2(eye, sky_center) <= SafetyRadius2

\* C1 witness: the camera stands exactly on the safety sphere and has just
\* been refused a step out of it.
C1_AtBoundaryAfterRejection ==
    /\ distance2(eye, sky_center) = SafetyRadius2
    /\ MoveTried(last) /\ last.ret = "False"

\* C2: a candidate farther than safety_radius from sky_center is rejected:
\* set_safe_eye_position returns False and eye, theta, phi and the redisplay
\* mark are what they were before the call.
C2_RejectedMoveLeavesCamera ==
    [][ (MoveTried(last') /\ distance2(last'.new_position, sky_center) > SafetyRadius2)
        => /\ last'.ret = "False"
           /\ eye' = eye /\ theta' = theta /\ phi' = phi
           /\ redisplay' = redisplay ]_vars

\* C2 witness: a move key proposed a position outside the sphere and the
\* camera did not go there.
C2_MoveRejected ==
    /\ MoveTried(last) /\ last.key \in MoveKeys
    /\ distance2(last.new_position, sky_center) > SafetyRadius2
    /\ last.ret = "False"
    /\ eye # last.new_position

\* C3: a candidate at most safety_radius from sky_center (boundary included)
\* is accepted: set_safe_eye_position returns True, eye is the candidate and a
\* redraw is requested; and "w" from eye = (0,0,8), theta = 0 proposes (0,0,7)
\* and is accepted.
C3_AcceptedMoveCommits ==
    [][ /\ (MoveTried(last') /\ distance2(last'.new_position, sky_center) <= SafetyRadius2)
           => /\ last'.ret = "True"
              /\ eye' = last'.new_position
              /\ redisplay' = TRUE
        /\ (MoveTried(last') /\ last'.key = "w" /\ eye = <<0, 0, 8 * Scale>> /\ theta = 0)
           => /\ last'.new_position = <<0, 0, 7 * Scale>>
              /\ last'.ret = "True"
              /\ eye' = <<0, 0, 7 * Scale>> ]_vars

\* C3 witness: a step that ends exactly on the safety sphere was accepted.
C3_BoundaryAccepted ==
    /\ MoveTried(last) /\ last.key \in MoveKeys
    /\ distance2(last.new_position, sky_center) = SafetyRadius2
    /\ last.ret = "True"
    /\ eye = last.new_position
    /\ redisplay = TRUE

\* C4: phi is within [-90, 90] in every reachable state.
C4_PhiClamped == phi >= -90 /\ phi <= 90

\* C4 witness: "look up" arrived with phi = 90 and left it at 90.
C4_ClampEngaged == last.key = "UP" /\ last.phi0 = 90 /\ phi = 90

\* C5: a turn-left immediately followed by a turn-right, or a turn-right
\* immediately followed by a turn-left, leaves theta where it was before the
\* pair, modulo 360.
C5_YawRoundTrip ==
    [][ ( /\ last.ev = "special" /\ last'.ev = "special"
          /\ \/ last.key = "LEFT" /\ last'.key = "RIGHT"
             \/ last.key = "RIGHT" /\ last'.key = "LEFT" )
        => (theta' - last.theta0) % 360 = 0 ]_vars

\* C5 witness: turn-right from 0 wrapped to 355 and the turn-left after it
\* came back to 0.
C5_RoundTripAcrossWrap ==
    /\ last.key0 = "RIGHT" /\ last.key = "LEFT"
    /\ last.theta0 = 355 /\ theta = 0

\* C6: look-up from phi < 90 immediately followed by look-down, and look-down
\* from phi > -90 immediately followed by look-up, leave phi where it was
\* before the pair.
C6_PitchRoundTrip ==
    [][ /\ (last.key = "UP" /\ last.phi0 < 90 /\ last'.key = "DOWN")
           => phi' = last.phi0
        /\ (last.key = "DOWN" /\ last.phi0 > -90 /\ last'.key = "UP")
           => phi' = last.phi0 ]_vars

\* C6 witness: look-up from 85 reached the clamp value 90 and the look-down
\* after it came back to 85.
C6_RoundTripBelowClamp ==
    /\ last.key0 = "UP" /\ last.key = "DOWN"
    /\ last.phi0 = 90 /\ phi = 85

\* C7: theta is in [0, 360) in every reachable state; turn-right from 0 gives
\* 355 and turn-left from 355 gives 0.
C7_ThetaWrapped ==
    /\ theta >= 0 /\ theta < 360
    /\ (last.key = "RIGHT" /\ last.theta0 = 0) => theta = 355
    /\ (last.key = "LEFT" /\ last.theta0 = 355) => theta = 0

\* C7 witness: turn-right arrived with theta = 0 and left it at 355.
C7_WrappedBelowZero == last.key = "RIGHT" /\ last.theta0 = 0 /\ theta = 355

\* C8: eye changes only in a keyboard() call whose set_safe_eye_position
\* returned True, and then to the proposed position; arrow keys, display and
\* resize leave eye unchanged; keyboard() leaves theta and phi unchanged.
C8_EyeOnlyThroughSafetyCheck ==
    [][ /\ eye' # eye
           => /\ MoveTried(last') /\ last'.ret = "True"
              /\ eye' = last'.new_position
        /\ last'.ev \in {"special", "display", "resize"} => eye' = eye
        /\ last'.ev = "keyboard" => (theta' = theta /\ phi' = phi) ]_vars

\* C8 witness: the camera has left its initial position through an accepted
\* move and an arrow key pressed afterwards has turned it without moving it.
C8_TurnedAfterMove ==
    /\ eye # <<0, 0, 8 * Scale>>
    /\ last.ev = "special" /\ last.key \in ArrowKeys
    /\ (theta # last.theta0 \/ phi # last.phi0)

C10_TurnRequestsRedraw ==
    (last.ev = "special" /\ last.key \in ArrowKeys) => redisplay = TRUE

\* C10 witness: a frame has been displayed, and "look down" then arrived with
\* phi = -90, left it at -90 and asked for a redraw.
C10_RedrawAtClamp ==
    /\ frames > 0
    /\ last.key = "DOWN" /\ last.phi0 = -90 /\ phi = -90
    /\ redisplay = TRUE

\* C11: after every resize_scene(width, height) with height >= 0 the viewport
\* and the aspect ratio use height 1 when height was 0 and height itself
\* otherwise, so the divisor of the aspect ratio is never zero.
C11_DegenerateResize ==
    /\ aspect[2] # 0
    /\ last.ev = "resize"
       => LET w == last.size[1]
              h == last.size[2]
          IN  /\ h >= 0
              /\ viewport = <<w, IF h = 0 THEN 1 ELSE h>>
              /\ aspect = <<w, IF h = 0 THEN 1 ELSE h>>

\* C11 witness: the window was resized to height 0 and the scene uses height 1.
C11_ResizedToZeroHeight ==
    /\ last.ev = "resize" /\ last.size = <<width, 0>>
    /\ viewport = <<width, 1>> /\ aspect = <<width, 1>>

---------------------------------------------------------------------------
(* Properties of the scene transforms *)

\* a transform that multiplies by the identity: a rotation by a multiple of
\* 360 degrees, a translation by the zero vector
IsIdentity(o) ==
    \/ o.op = "glRotatef" /\ o.a % Deg(360) = 0
    \/ o.op = "glTranslatef" /\ o.v = Origin

\* a product of transforms without its identity factors
Net(w) == SelectSeq(w, LAMBDA o : ~IsIdentity(o))

\* the transforms a returned call has multiplied into the current matrix
Applied(r) == SubSeq(r.cur1, Len(r.cur0) + 1, Len(r.cur1))

\* C12: a call position_on_sphere(center, longitude, latitude, height,
\* orientation) multiplies the current matrix by exactly five transforms, in
\* this order: translate by center, rotate about y by longitude - 90, rotate
\* about z by latitude - 90, translate by (0, height, 0), rotate about y by
\* orientation; for center (0,0,0), longitude 90, latitude 90, orientation 0
\* every rotation has angle 0 and what remains is the translation by (0, h, 0).
C12_PositionOnSphere ==
    gl.returned.f = "position_on_sphere"
    => LET r == gl.returned
           center == r.args[1]
           longitude == r.args[2]
           latitude == r.args[3]
           h == r.args[4]
           orientation == r.args[5]
           done == Applied(r)
       IN  /\ Len(r.cur1) = Len(r.cur0) + 5
           /\ SubSeq(r.cur1, 1, Len(r.cur0)) = r.cur0
           /\ done[1].op = "glTranslatef" /\ done[1].v = center
           /\ done[2].op = "glRotatef" /\ done[2].v = <<0, Scale, 0>>
           /\ done[2].a = longitude - 90 * Scale
           /\ done[3].op = "glRotatef" /\ done[3].v = <<0, 0, Scale>>
           /\ done[3].a = latitude - 90 * Scale
           /\ done[4].op = "glTranslatef" /\ done[4].v = <<0, h, 0>>
           /\ done[5].op = "glRotatef" /\ done[5].v = <<0, Scale, 0>>
           /\ done[5].a = orientation
           /\ r.depth1 = r.depth0
           /\ (center = <<0, 0, 0>> /\ longitude = 90 * Scale /\ latitude = 90 * Scale
               /\ orientation = 0)
              => /\ \A i \in 1..5 : done[i].op = "glRotatef" => done[i].a = 0
                 /\ Net(done) = Net(<<glTranslatef(<<0, h, 0>>)>>)

\* C12 witness: position_on_sphere((0,0,0), 90, 90, h, 0) has returned for an
\* h > 0 and has left the translation by (0, h, 0).
C12_CanonicalCallReturned ==
    /\ gl.job.kind = "position_on_sphere"
    /\ gl.returned.f = "position_on_sphere"
    /\ gl.returned.args = <<<<0, 0, 0>>, 90 * Scale, 90 * Scale, planet_radius - Scale \div 10, 0>>
    /\ Net(gl.cur) = <<glTranslatef(<<0, planet_radius - Scale \div 10, 0>>)>>

RECURSIVE SumAngles(_)
SumAngles(w) == IF w = <<>> THEN 0 ELSE Head(w).a + SumAngles(Tail(w))

\* the angle about the local vertical axis at which a quad of a returned
\* draw_crossed_textures call lies: the rotations applied after the five
\* transforms of position_on_sphere
Orientation(r, q) == SumAngles(SubSeq(q, Len(r.cur0) + 6, Len(q)))

\* the number of quads a call of draw_crossed_textures with faces = n draws is n
QuadCount ==
    gl.returned.f = "draw_crossed_textures"
    => Len(gl.returned.quads) = gl.returned.args[4]

\* C13: draw_crossed_textures with faces = n draws exactly n quads, at n
\* orientations about the local vertical axis that are pairwise different
\* modulo 180 degrees.
C13_CrossedTexturesStar ==
    gl.returned.f = "draw_crossed_textures"
    => LET r == gl.returned
           n == r.args[4]
       IN  /\ Len(r.quads) = n
           /\ \A i, j \in 1..Len(r.quads) :
                i < j => Orientation(r, r.quads[i]) % Deg(180)
                         # Orientation(r, r.quads[j]) % Deg(180)

\* the functions of a frame that save and restore the current matrix
DrawFunctions ==
    {"draw_sky", "draw_starlight", "draw_planet", "draw_satellite",
     "draw_crossed_textures", "draw_rose"}

\* C14: in a frame no glPopMatrix() finds the stack empty or takes a matrix
\* that the function executing it did not push; when a drawing function
\* returns, the stack is as deep as when it was entered and the current
\* matrix is the one it was entered with; and at the end of the frame the
\* stack is as deep as at its start.
C14_MatrixStackBalanced ==
    /\ ~gl.underflow
    /\ ~gl.stolen
    /\ gl.returned.f # "-" => gl.returned.depth1 = gl.returned.depth0
    /\ gl.returned.f \in DrawFunctions => gl.returned.cur1 = gl.returned.cur0
    /\ (gl.job.kind = "display" /\ (gl.pc = 1 \/ gl.pc > Len(Program)))
       => gl.stack = <<>>

\* C14 witness: in the second frame draw_planet, the last and deepest of the
\* drawing functions, has returned with the stack and the matrix it found.
C14_SecondFramePlanetReturned ==
    /\ frames = 1
    /\ gl.returned.f = "draw_planet"
    /\ gl.pc > Len(Program)
    /\ gl.stack = <<>>
    /\ gl.cur = <<gluLookAt>>

===========================================================================
